---- MODULE Spec2Model ----
(***************************************************************************)
(* hwplug v2 backend (src/unnamed/part_001): the registration, discount    *)
(* validation, discount creation and checkout handlers over the User,      *)
(* Order, Discount and Referral collections, the payment processor and the *)
(* mail transport.                                                         *)
(*                                                                         *)
(* Every handler is an async function: it runs atomically from one await   *)
(* to the next, and between two awaits any other request may run.  A       *)
(* handler is therefore one action per await that touches a store, the     *)
(* processor or the mail transport; the synchronous code that follows an   *)
(* await belongs to the action of that await.                              *)
(*                                                                         *)
(* Money is counted in units of 1/10000 of a pound, so that a              *)
(* percentage of an amount in whole pence is exact.  Floating-point        *)
(* rounding error of the JavaScript Number type is not modelled.           *)
(*                                                                         *)
(* Request bodies are well formed (the express-validator checks pass, ids  *)
(* cast).  Of the store's errors only the violation of a unique index is   *)
(* modelled; the payment processor may reject a session and the mail       *)
(* transport may fail.  Document.save() writes the paths the handler       *)
(* changed, with the values the handler computed ($set).                   *)
(***************************************************************************)
EXTENDS Integers, Sequences, FiniteSets, TLC

\* ------------------------------------------------------------------ bounds
MaxSlots == 2          \* requests in flight at the same time
MaxOps == 2            \* requests received
MaxNow == 2            \* last instant of the clock

\* --------------------------------------------------------- program values
Penny == 100                       \* units per penny
FLOOR == 5000                      \* Math.max(total, 0.50)
NEW_USER_BONUS == 10000            \* credits: referralCode ? 1 : 0
REFERRER_BONUS == 20000            \* referrer.credits += 2
REFERRAL_REWARD == 2               \* reward: 2 (pounds, as stored)

NoCode == ""                       \* an absent (falsy) string of a request
NoDoc == 0                         \* findOne / findById found nothing
NoNum == -1                        \* a Number field holding null

Slots == 1..MaxSlots

\* ------------------------------------------------------------ input sets
Emails == {"a@x", "b@x"}
GenCodes == {"HW1", "HW2"}                 \* results of generateReferralCode
ReqRefCodes == {NoCode, "HW1", "HW9"}      \* req.body.referralCode; nobody
                                           \* ever holds HW9
Carts == { << [price |-> 3000, qty |-> 1] >>,      \* 0.30
           << [price |-> 50300, qty |-> 2] >> }    \* 5.03 x 2
ReqUserIds == 0..1                          \* req.body.userId, 0 = absent
ReqCodes == {NoCode, "save10"}              \* req.body.discountCode / code
\* req.body of a discount creation; 0 is an absent minPurchase, maxUses,
\* expiresAt; value is a percentage or an amount (5.00)
NewDiscounts ==
  { [code |-> "save10", type |-> "percentage", value |-> 10,
     minPurchase |-> 0, maxUses |-> 0, expiresAt |-> 0],
    [code |-> "save10", type |-> "percentage", value |-> 10,
     minPurchase |-> 0, maxUses |-> 1, expiresAt |-> 0],
    [code |-> "save10", type |-> "fixed", value |-> 50000,
     minPurchase |-> 50000, maxUses |-> 0, expiresAt |-> 0],
    [code |-> "save10", type |-> "fixed", value |-> 50000,
     minPurchase |-> 0, maxUses |-> 0, expiresAt |-> 1] }
ValidateTotals == {3000, 100600}

\* ---------------------------------------------------------------- helpers
Min(a, b) == IF a < b THEN a ELSE b
Max(a, b) == IF a > b THEN a ELSE b

\* String.prototype.toUpperCase on the strings of the input sets
ToUpperCase(s) == CASE s = "save10" -> "SAVE10" [] OTHER -> s

\* items.reduce((sum, item) => sum + (item.price * item.qty), 0)
RECURSIVE RawTotal(_)
RawTotal(items) ==
  IF items = << >> THEN 0
  ELSE RawTotal(SubSeq(items, 1, Len(items) - 1))
       + items[Len(items)].price * items[Len(items)].qty

\* the whole balance, whatever the total
CreditsUsedAll(credits, total) == credits

\* the whole total, whatever the balance
CreditsUsedTotal(credits, total) == total

\* Math.min(user.credits, total)
CreditsUsed(credits, total) == Min(credits, total)

\* discount.type === 'percentage' ? (total * discount.value) / 100 : discount.value
DiscountAmount(type, value, total) ==
  IF type = "percentage" THEN (total * value) \div 100 ELSE value

\* no floor
ClampTotalNone(total) == total

\* total = Math.max(total, 0.50)
ClampTotal(total) == Max(total, FLOOR)

\* unit_amount: Math.round(total * 100), in pence; Math.round rounds a half up
UnitAmount(total) == (total + (Penny \div 2)) \div Penny

\* maxUses || null, expiresAt || null  (0 is falsy)
OrNull(x) == IF x = 0 THEN NoNum ELSE x

VARIABLES users, discounts, orders, referrals, sessions, now, req, vresp,
          cresp, lresp, ops

vars == << users, discounts, orders, referrals, sessions, now, req, vresp,
           cresp, lresp, ops >>

\* ------------------------------------------------------------ collections
\* Model.findOne(filter): the index of the matching document, or NoDoc
FindUserByEmail(email) ==
  IF \E i \in 1..Len(users) : users[i].email = email
  THEN CHOOSE i \in 1..Len(users) : users[i].email = email ELSE NoDoc

FindUserByReferralCode(code) ==
  IF \E i \in 1..Len(users) : users[i].referralCode = code
  THEN CHOOSE i \in 1..Len(users) : users[i].referralCode = code ELSE NoDoc

\* User.findById(userId)
FindUserById(id) == IF id \in 1..Len(users) THEN id ELSE NoDoc

\* Discount.findOne({ code, active: true })
FindActiveDiscount(code) ==
  IF \E i \in 1..Len(discounts) : discounts[i].code = code /\ discounts[i].active
  THEN CHOOSE i \in 1..Len(discounts) :
         discounts[i].code = code /\ discounts[i].active
  ELSE NoDoc

\* indexes that are not unique
UserIndexNotUnique(email, referralCode) == FALSE

\* the unique indexes of userSchema: email and referralCode
UserIndexViolated(email, referralCode) ==
  \E i \in 1..Len(users) :
    users[i].email = email \/ users[i].referralCode = referralCode

\* the unique index of discountSchema: code
DiscountIndexViolated(code) ==
  \E i \in 1..Len(discounts) : discounts[i].code = code

\* new User({ email, ..., referralCode: newReferralCode,
\*            referredBy: referralCode || null, credits: referralCode ? 1 : 0 })
NewUser(email, newReferralCode, referralCode) ==
  [ email |-> email,
    referralCode |-> newReferralCode,
    referredBy |-> referralCode,
    credits |-> IF referralCode # NoCode THEN NEW_USER_BONUS ELSE 0 ]

\* new Discount({ code: code.toUpperCase(), type, value,
\*   minPurchase: minPurchase || 0, maxUses: maxUses || null,
\*   expiresAt: expiresAt || null })  with the defaults of discountSchema
NewDiscount(body) ==
  [ code |-> ToUpperCase(body.code),
    type |-> body.type,
    value |-> body.value,
    minPurchase |-> body.minPurchase,
    maxUses |-> OrNull(body.maxUses),
    usedCount |-> 0,
    active |-> TRUE,
    expiresAt |-> OrNull(body.expiresAt) ]

\* --------------------------------------------------------------- requests
IdleReq ==
  [ kind |-> "none", pc |-> "idle", status |-> 0, body |-> "",
    items |-> << >>, userId |-> 0, discountCode |-> NoCode,
    total |-> 0, creditsUsed |-> 0, discountAmount |-> 0,
    user |-> NoDoc, userCredits |-> 0, discount |-> NoDoc, usedCount |-> 0,
    sessionId |-> 0,
    email |-> "", referralCode |-> NoCode, newReferralCode |-> NoCode,
    referrer |-> NoDoc, referrerCredits |-> 0,
    mailsTried |-> 0, mailsFailed |-> 0,
    alone |-> TRUE, regOverlap |-> FALSE, credits0 |-> NoNum ]

\* the handler has answered: its locals are gone, the response stays
Respond(rq, status, body) ==
  [ IdleReq EXCEPT !.kind = rq.kind, !.pc = "done", !.status = status,
                   !.body = body, !.email = rq.email,
                   !.sessionId = rq.sessionId,
                   !.mailsTried = rq.mailsTried, !.mailsFailed = rq.mailsFailed ]

Active(r) == req[r].pc \notin {"idle", "done"}

\* a new request takes the lowest free slot
FreeSlot(r) == ~Active(r) /\ \A q \in Slots : q < r => Active(q)

\* bookkeeping of overlap, for the requests already holding a slot when a
\* request of the given kind starts in slot r
Overlapped(r, kind) ==
  [ q \in Slots |->
      IF q = r \/ ~Active(q) THEN req[q]
      ELSE [ req[q] EXCEPT !.alone = FALSE,
                           !.regOverlap = @ \/ (kind = "register") ] ]

NoneElseActive(r) == \A q \in Slots : q # r => ~Active(q)
RegElseActive(r) ==
  \E q \in Slots : q # r /\ Active(q) /\ req[q].kind = "register"

\* The stores outlive the process.  The server starts on stores that are
\* empty or hold what earlier requests left: a user registered with a
\* referral code that nobody holds (RegStart(r, "a@x", "HW9") .. RegMail(r),
\* HW1 generated), a discount created by CreateDiscount.
StoredUsers ==
  { << >>, << NewUser("a@x", "HW1", "HW9") >> }

StoredDiscounts ==
  { << >> } \cup { << NewDiscount(b) >> : b \in NewDiscounts }

\* no answer of POST /submit-login-details yet
NoLoginResponse ==
  [ status |-> 0, body |-> "", mailsTried |-> 0, mailsFailed |-> 0 ]

Init ==
  /\ users \in StoredUsers
  /\ discounts \in StoredDiscounts
  /\ orders = << >>
  /\ referrals = << >>
  /\ sessions = << >>
  /\ now = 1
  /\ req = [ r \in Slots |-> IdleReq ]
  /\ vresp = [ status |-> 0, error |-> "", amount |-> 0 ]
  /\ cresp = 0
  /\ lresp = NoLoginResponse
  /\ ops = 0

\* the clock that new Date() reads
Tick ==
  /\ now < MaxNow
  /\ now' = now + 1
  /\ UNCHANGED << users, discounts, orders, referrals, sessions, req, vresp,
                  cresp, lresp, ops >>

\* ------------------------------------------ POST /api/auth/register
\* validation passed; up to  await User.findOne({ email })
RegStart(r, email, referralCode) ==
  /\ FreeSlot(r)
  /\ ops < MaxOps
  /\ ops' = ops + 1
  /\ req' = [ Overlapped(r, "register") EXCEPT ![r] =
                [ IdleReq EXCEPT !.kind = "register", !.pc = "findEmail",
                                 !.email = email, !.referralCode = referralCode,
                                 !.alone = NoneElseActive(r),
                                 !.regOverlap = RegElseActive(r) ] ]
  /\ UNCHANGED << users, discounts, orders, referrals, sessions, now, lresp,
                  vresp, cresp >>

\* existingUser = await User.findOne({ email }); 400 when it exists
RegFindEmail(r) ==
  /\ req[r].kind = "register" /\ req[r].pc = "findEmail"
  /\ req' = [ req EXCEPT ![r] =
                IF FindUserByEmail(req[r].email) # NoDoc
                THEN Respond(@, 400, "User already exists")
                ELSE [ @ EXCEPT !.pc = "genCode" ] ]
  /\ UNCHANGED << users, discounts, orders, referrals, sessions, now, lresp,
                  vresp, cresp, ops >>

\* newReferralCode = generateReferralCode();
\* while (await User.findOne({ referralCode: newReferralCode })) ...
RegGenCode(r) ==
  /\ req[r].kind = "register" /\ req[r].pc = "genCode"
  /\ \E c \in GenCodes :
       req' = [ req EXCEPT ![r] =
                  [ @ EXCEPT !.newReferralCode = c,
                             !.pc = IF FindUserByReferralCode(c) # NoDoc
                                    THEN "genCode" ELSE "saveUser" ] ]
  /\ UNCHANGED << users, discounts, orders, referrals, sessions, now, lresp,
                  vresp, cresp, ops >>

\* new User({...}); await user.save()  -- throws on a unique index: 500
RegSaveUser(r) ==
  /\ req[r].kind = "register" /\ req[r].pc = "saveUser"
  /\ IF UserIndexViolated(req[r].email, req[r].newReferralCode)
     THEN /\ req' = [ req EXCEPT ![r] = Respond(@, 500, "Registration failed") ]
          /\ UNCHANGED users
     ELSE /\ users' = Append(users,
                 NewUser(req[r].email, req[r].newReferralCode,
                         req[r].referralCode))
          /\ req' = [ req EXCEPT ![r] =
                        [ @ EXCEPT !.user = Len(users) + 1,
                                   !.pc = IF req[r].referralCode # NoCode
                                          THEN "findReferrer" ELSE "mail" ] ]
  /\ UNCHANGED << discounts, orders, referrals, sessions, now, lresp, vresp,
                  cresp, ops >>

\* referrer = await User.findOne({ referralCode }); referrer.credits += 2
RegFindReferrer(r) ==
  /\ req[r].kind = "register" /\ req[r].pc = "findReferrer"
  /\ LET referrer == FindUserByReferralCode(req[r].referralCode) IN
     req' = [ req EXCEPT ![r] =
                IF referrer # NoDoc
                THEN [ @ EXCEPT !.referrer = referrer,
                                !.referrerCredits =
                                   users[referrer].credits + REFERRER_BONUS,
                                !.pc = "saveReferrer" ]
                ELSE [ @ EXCEPT !.pc = "mail" ] ]
  /\ UNCHANGED << users, discounts, orders, referrals, sessions, now, lresp,
                  vresp, cresp, ops >>

\* await referrer.save()  -- $set of the modified path credits
RegSaveReferrer(r) ==
  /\ req[r].kind = "register" /\ req[r].pc = "saveReferrer"
  /\ users' = [ users EXCEPT ![req[r].referrer].credits = req[r].referrerCredits ]
  /\ req' = [ req EXCEPT ![r].pc = "saveReferral" ]
  /\ UNCHANGED << discounts, orders, referrals, sessions, now, lresp, vresp,
                  cresp, ops >>

\* await new Referral({ referrerCode, referredEmail, reward: 2 }).save()
RegSaveReferral(r) ==
  /\ req[r].kind = "register" /\ req[r].pc = "saveReferral"
  /\ referrals' = Append(referrals,
         [ referrerCode |-> req[r].referralCode,
           referredEmail |-> req[r].email,
           reward |-> REFERRAL_REWARD ])
  /\ req' = [ req EXCEPT ![r].pc = "mail" ]
  /\ UNCHANGED << users, discounts, orders, sessions, now, lresp, vresp,
                  cresp, ops >>

\* a sendEmail that sends again after a failure
SendEmailRetry(rq, ok) ==
  [ rq EXCEPT !.mailsTried = IF ok THEN @ + 1 ELSE @ + 2,
              !.mailsFailed = IF ok THEN @ ELSE @ + 1 ]

\* sendEmail(to, subject, html): one transporter.sendMail, its error caught
SendEmail(rq, ok) ==
  [ rq EXCEPT !.mailsTried = @ + 1,
              !.mailsFailed = IF ok THEN @ ELSE @ + 1 ]

\* await sendEmail(email, 'Welcome ...'); res.json({ success: true, ... })
RegMail(r) ==
  /\ req[r].kind = "register" /\ req[r].pc = "mail"
  /\ \E ok \in BOOLEAN :
       req' = [ req EXCEPT ![r] = Respond(SendEmail(@, ok), 200, "success") ]
  /\ UNCHANGED << users, discounts, orders, referrals, sessions, now, lresp,
                  vresp, cresp, ops >>

\* ------------------------------------------ POST /api/discount/validate
\* the handler has one await, the findOne: it is one step
ValidateResponse(code, total) ==
  LET d == FindActiveDiscount(ToUpperCase(code)) IN
  IF d = NoDoc
    THEN [ status |-> 404, error |-> "Invalid discount code", amount |-> 0 ]
  ELSE IF discounts[d].expiresAt # NoNum /\ now > discounts[d].expiresAt
    THEN [ status |-> 400, error |-> "Discount code expired", amount |-> 0 ]
  ELSE IF discounts[d].maxUses # NoNum
          /\ discounts[d].usedCount >= discounts[d].maxUses
    THEN [ status |-> 400, error |-> "Discount code limit reached", amount |-> 0 ]
  ELSE IF total < discounts[d].minPurchase
    THEN [ status |-> 400, error |-> "Minimum purchase required", amount |-> 0 ]
  ELSE [ status |-> 200, error |-> "",
         amount |-> DiscountAmount(discounts[d].type, discounts[d].value, total) ]

Validate(code, total) ==
  /\ ops < MaxOps
  /\ ops' = ops + 1
  /\ vresp' = ValidateResponse(code, total)
  /\ UNCHANGED << users, discounts, orders, referrals, sessions, now, lresp,
                  req, cresp >>

\* ------------------------------------------ POST /api/admin/discount/create
\* (behind authenticateAdmin) new Discount({...}); await discount.save()
CreateDiscount(body) ==
  /\ ops < MaxOps
  /\ ops' = ops + 1
  /\ IF DiscountIndexViolated(ToUpperCase(body.code))
     THEN cresp' = 500 /\ UNCHANGED discounts
     ELSE /\ cresp' = 200
          /\ discounts' = Append(discounts, NewDiscount(body))
  /\ UNCHANGED << users, orders, referrals, sessions, now, lresp, req,
                  vresp >>

\* ------------------------------------------ POST /create-checkout-session
\* where the handler continues once the credit stage is over
AfterCredits(rq) ==
  IF rq.discountCode # NoCode THEN "findDiscount" ELSE "createSession"

\* let total = items.reduce(...); discountAmount = 0; creditsUsed = 0;
\* up to the first await
CheckoutStart(r, items, userId, discountCode) ==
  /\ FreeSlot(r)
  /\ ops < MaxOps
  /\ ops' = ops + 1
  /\ LET rq == [ IdleReq EXCEPT !.kind = "checkout",
                                !.items = items, !.userId = userId,
                                !.discountCode = discountCode,
                                !.total = RawTotal(items),
                                !.alone = NoneElseActive(r),
                                !.credits0 =
                                   IF FindUserById(userId) # NoDoc
                                   THEN users[FindUserById(userId)].credits
                                   ELSE NoNum ] IN
     req' = [ Overlapped(r, "checkout") EXCEPT ![r] =
                [ rq EXCEPT !.pc = IF userId # 0 THEN "findUser"
                                   ELSE AfterCredits(rq) ] ]
  /\ UNCHANGED << users, discounts, orders, referrals, sessions, now, lresp,
                  vresp, cresp >>

\* the credits leave the balance but not the total
ApplyCreditsKeepTotal(rq, user, credits) ==
  LET used == CreditsUsed(credits, rq.total) IN
  [ rq EXCEPT !.user = user,
              !.creditsUsed = used,
              !.userCredits = credits - used,
              !.pc = "saveUser" ]

\* user = await User.findById(userId);
\* if (user && user.credits > 0) { creditsUsed = Math.min(user.credits, total);
\*   total -= creditsUsed; user.credits -= creditsUsed; ...
ApplyCredits(rq, user, credits) ==
  LET used == CreditsUsed(credits, rq.total) IN
  [ rq EXCEPT !.user = user,
              !.creditsUsed = used,
              !.total = @ - used,
              !.userCredits = credits - used,
              !.pc = "saveUser" ]

CkFindUser(r) ==
  /\ req[r].kind = "checkout" /\ req[r].pc = "findUser"
  /\ LET user == FindUserById(req[r].userId) IN
     req' = [ req EXCEPT ![r] =
                IF user # NoDoc /\ users[user].credits > 0
                THEN ApplyCredits(@, user, users[user].credits)
                ELSE [ @ EXCEPT !.user = user, !.pc = AfterCredits(req[r]) ] ]
  /\ UNCHANGED << users, discounts, orders, referrals, sessions, now, lresp,
                  vresp, cresp, ops >>

\* an atomic decrement of the stored balance ($inc)
SavedCreditsDecrement(stored, rq) == stored - rq.creditsUsed

\* the balance user.save() stores: the one the handler computed from its read
SavedCredits(stored, rq) == rq.userCredits

\* await user.save()  -- $set of credits when the assignment changed it
CkSaveUser(r) ==
  /\ req[r].kind = "checkout" /\ req[r].pc = "saveUser"
  /\ users' = IF req[r].creditsUsed # 0
              THEN [ users EXCEPT ![req[r].user].credits =
                                     SavedCredits(@, req[r]) ]
              ELSE users
  /\ req' = [ req EXCEPT ![r].pc = AfterCredits(req[r]) ]
  /\ UNCHANGED << discounts, orders, referrals, sessions, now, lresp, vresp,
                  cresp, ops >>

\* if (discount) { discountAmount = ...; total -= discountAmount;
\*   discount.usedCount += 1; ...
ApplyDiscount(rq, d, doc) ==
  LET amount == DiscountAmount(doc.type, doc.value, rq.total) IN
  [ rq EXCEPT !.discount = d,
              !.discountAmount = amount,
              !.total = @ - amount,
              !.usedCount = doc.usedCount + 1,
              !.pc = "saveDiscount" ]

\* discount = await Discount.findOne({ code: discountCode.toUpperCase(),
\*                                     active: true })
CkFindDiscount(r) ==
  /\ req[r].kind = "checkout" /\ req[r].pc = "findDiscount"
  /\ LET d == FindActiveDiscount(ToUpperCase(req[r].discountCode)) IN
     req' = [ req EXCEPT ![r] =
                IF d # NoDoc THEN ApplyDiscount(@, d, discounts[d])
                ELSE [ @ EXCEPT !.pc = "createSession" ] ]
  /\ UNCHANGED << users, discounts, orders, referrals, sessions, now, lresp,
                  vresp, cresp, ops >>

\* await discount.save()  -- $set of usedCount
CkSaveDiscount(r) ==
  /\ req[r].kind = "checkout" /\ req[r].pc = "saveDiscount"
  /\ discounts' = [ discounts EXCEPT ![req[r].discount].usedCount =
                                        req[r].usedCount ]
  /\ req' = [ req EXCEPT ![r].pc = "createSession" ]
  /\ UNCHANGED << users, orders, referrals, sessions, now, lresp, vresp,
                  cresp, ops >>

\* total = Math.max(total, 0.50);
\* session = await stripe.checkout.sessions.create({...})
\* a rejection is caught: res.status(500).json({ error: error.message })
\* a catch block that gives the consumed credits back
CatchCheckoutErrorRollback(r) ==
  /\ req' = [ req EXCEPT ![r] = Respond(@, 500, "error.message") ]
  /\ users' = IF req[r].user # NoDoc
              THEN [ users EXCEPT ![req[r].user].credits =
                                     @ + req[r].creditsUsed ]
              ELSE users
  /\ UNCHANGED << discounts, orders >>

\* catch (error) { console.error(...); res.status(500).json({ error }) }
CatchCheckoutError(r) ==
  /\ req' = [ req EXCEPT ![r] = Respond(@, 500, "error.message") ]
  /\ UNCHANGED << users, discounts, orders >>

CkCreateSession(r) ==
  /\ req[r].kind = "checkout" /\ req[r].pc = "createSession"
  /\ LET total == ClampTotal(req[r].total) IN
     \/ /\ sessions' = Append(sessions,
               [ unit_amount |-> UnitAmount(total),
                 userId |-> req[r].userId,
                 creditsUsed |-> req[r].creditsUsed ])
        /\ req' = [ req EXCEPT ![r] =
                      [ @ EXCEPT !.total = total,
                                 !.sessionId = Len(sessions) + 1,
                                 !.pc = "saveOrder" ] ]
        /\ UNCHANGED << users, discounts, orders >>
     \/ /\ CatchCheckoutError(r)
        /\ UNCHANGED sessions
  /\ UNCHANGED << referrals, now, lresp, vresp, cresp, ops >>

\* order = new Order({...}); await order.save()
CkSaveOrder(r) ==
  /\ req[r].kind = "checkout" /\ req[r].pc = "saveOrder"
  /\ orders' = Append(orders,
         [ userId |-> req[r].userId,
           items |-> req[r].items,
           total |-> req[r].total,
           stripeSessionId |-> req[r].sessionId,
           status |-> "pending",
           discountCode |-> req[r].discountCode,
           discountAmount |-> req[r].discountAmount ])
  /\ req' = [ req EXCEPT ![r].pc = "mailCustomer" ]
  /\ UNCHANGED << users, discounts, referrals, sessions, now, lresp, vresp,
                  cresp, ops >>

\* await sendEmail(customerEmail, 'Order Confirmed! ...')
CkMailCustomer(r) ==
  /\ req[r].kind = "checkout" /\ req[r].pc = "mailCustomer"
  /\ \E ok \in BOOLEAN :
       req' = [ req EXCEPT ![r] = [ SendEmail(@, ok) EXCEPT !.pc = "mailAdmin" ] ]
  /\ UNCHANGED << users, discounts, orders, referrals, sessions, now, lresp,
                  vresp, cresp, ops >>

\* await sendEmail(process.env.YOUR_EMAIL, 'New hwplug Order', ...);
\* res.json({ id: session.id })
CkMailAdmin(r) ==
  /\ req[r].kind = "checkout" /\ req[r].pc = "mailAdmin"
  /\ \E ok \in BOOLEAN :
       req' = [ req EXCEPT ![r] = Respond(SendEmail(@, ok), 200, "session.id") ]
  /\ UNCHANGED << users, discounts, orders, referrals, sessions, now, lresp,
                  vresp, cresp, ops >>

\* ------------------------------------------ POST /submit-login-details
\* sendLoginDetailsNotification(data): one transporter.sendMail, its error
\* caught and logged
SendLoginDetailsNotification(rs, ok) ==
  [ rs EXCEPT !.mailsTried = @ + 1,
              !.mailsFailed = IF ok THEN @ ELSE @ + 1 ]

\* await sendLoginDetailsNotification({...});
\* res.json({ success: true, message: ... })
SubmitLoginDetails ==
  /\ ops < MaxOps
  /\ ops' = ops + 1
  /\ \E ok \in BOOLEAN :
       lresp' = [ SendLoginDetailsNotification(NoLoginResponse, ok)
                    EXCEPT !.status = 200, !.body = "success" ]
  /\ UNCHANGED << users, discounts, orders, referrals, sessions, now, req,
                  vresp, cresp >>

\* ------------------------------------------------------------------ system
Next ==
  \/ Tick
  \/ \E r \in Slots, e \in Emails, c \in ReqRefCodes : RegStart(r, e, c)
  \/ \E r \in Slots : RegFindEmail(r)
  \/ \E r \in Slots : RegGenCode(r)
  \/ \E r \in Slots : RegSaveUser(r)
  \/ \E r \in Slots : RegFindReferrer(r)
  \/ \E r \in Slots : RegSaveReferrer(r)
  \/ \E r \in Slots : RegSaveReferral(r)
  \/ \E r \in Slots : RegMail(r)
  \/ \E c \in ReqCodes \ {NoCode}, t \in ValidateTotals : Validate(c, t)
  \/ \E b \in NewDiscounts : CreateDiscount(b)
  \/ \E r \in Slots, i \in Carts, u \in ReqUserIds, c \in ReqCodes :
        CheckoutStart(r, i, u, c)
  \/ \E r \in Slots : CkFindUser(r)
  \/ \E r \in Slots : CkSaveUser(r)
  \/ \E r \in Slots : CkFindDiscount(r)
  \/ \E r \in Slots : CkSaveDiscount(r)
  \/ \E r \in Slots : CkCreateSession(r)
  \/ \E r \in Slots : CkSaveOrder(r)
  \/ \E r \in Slots : CkMailCustomer(r)
  \/ \E r \in Slots : CkMailAdmin(r)
  \/ SubmitLoginDetails

Spec == Init /\ [][Next]_vars

\* ================================================================= claims
Abs(x) == IF x < 0 THEN -x ELSE x

Orders == { orders[i] : i \in 1..Len(orders) }

\* the credits a persisted order's checkout consumed: the creditsUsed of the
\* metadata of its payment session
OrderCreditsUsed(o) == sessions[o.stripeSessionId].creditsUsed

\* max(0.50, rawTotal - creditsUsed - discountAmount)
ExpectedTotal(o) ==
  Max(FLOOR, RawTotal(o.items) - OrderCreditsUsed(o) - o.discountAmount)

CheckoutAt(r, pcs) == req[r].kind = "checkout" /\ req[r].pc \in pcs

PastCredits ==
  {"findDiscount", "saveDiscount", "createSession", "saveOrder",
   "mailCustomer", "mailAdmin"}

\* C1 as stated: the total persisted on every order, and the amount charged
\* for it, equal max(0.50, rawTotal - creditsUsed - discountAmount).
C1_ChargedAndPersistedTotal ==
  \A o \in Orders :
    /\ o.total = ExpectedTotal(o)
    /\ sessions[o.stripeSessionId].unit_amount * Penny = ExpectedTotal(o)

\* C1 amended: the total persisted on every order equals
\* max(0.50, rawTotal - creditsUsed - discountAmount), and the amount charged
\* is that total rounded to whole pence: it is within half a penny of it.
C1_PersistedTotalChargedRounded ==
  \A o \in Orders :
    /\ o.total = ExpectedTotal(o)
    /\ 2 * Abs(sessions[o.stripeSessionId].unit_amount * Penny - o.total)
         <= Penny

\* an order whose credits and discount both reduced the total, charged at an
\* amount that is not the persisted total
C1_Witness ==
  \E o \in Orders :
    /\ OrderCreditsUsed(o) > 0
    /\ o.discountAmount > 0
    /\ o.total > FLOOR
    /\ sessions[o.stripeSessionId].unit_amount * Penny # o.total

\* C2: a checkout that overlaps no other request consumes min(stored credits,
\* rawTotal) when userId resolves to a user and 0 otherwise, and leaves the
\* user with the old balance minus the credits consumed; the credits consumed
\* exceed neither the stored balance nor the pre-discount total.
C2_CreditsUsed ==
  \A r \in Slots :
    (CheckoutAt(r, PastCredits) /\ req[r].alone) =>
      IF req[r].credits0 = NoNum
      THEN req[r].creditsUsed = 0
      ELSE /\ req[r].creditsUsed = Min(req[r].credits0, RawTotal(req[r].items))
           /\ users[req[r].userId].credits = req[r].credits0 - req[r].creditsUsed
           /\ req[r].creditsUsed <= req[r].credits0
           /\ req[r].creditsUsed <= RawTotal(req[r].items)

\* a lone checkout of a user whose credits exceed the cart: the cart's total
\* is consumed, the rest stays
C2_Witness ==
  \E r \in Slots :
    /\ CheckoutAt(r, PastCredits) /\ req[r].alone
    /\ req[r].credits0 > RawTotal(req[r].items)
    /\ req[r].creditsUsed = RawTotal(req[r].items)
    /\ users[req[r].userId].credits > 0

\* C7: every persisted order has total >= 0.50.
C7_OrderTotalAtLeastFloor == \A o \in Orders : o.total >= FLOOR

\* an order of a cart below 0.50, with a discount larger than what remained
C7_Witness ==
  \E o \in Orders :
    /\ RawTotal(o.items) < FLOOR
    /\ o.discountAmount > RawTotal(o.items) - OrderCreditsUsed(o)
    /\ o.total = FLOOR

\* a step of the request in slot r
Stepped(r) == req'[r].pc # req[r].pc

DiscountOf(code) == FindActiveDiscount(ToUpperCase(code))

Expired(doc) == doc.expiresAt # NoNum /\ now > doc.expiresAt
AtCap(doc) == doc.maxUses # NoNum /\ doc.usedCount >= doc.maxUses

\* the discount step of a checkout leaves the discount unapplied
DiscountNotApplied(r) ==
  /\ req'[r].discountAmount = 0
  /\ req'[r].total = req[r].total
  /\ req'[r].pc = "createSession"
  /\ discounts' = discounts

\* C3 as stated: a stored discount whose maxUses is set never has
\* usedCount > maxUses.
C3_UsedCountWithinMaxUses ==
  \A i \in 1..Len(discounts) :
    discounts[i].maxUses # NoNum => discounts[i].usedCount <= discounts[i].maxUses

\* C4 as stated: a use attempt on a discount whose usedCount has reached its
\* maxUses is rejected: the checkout subtracts nothing and does not count a
\* use, the validation answers 'limit reached' (when the code has not expired,
\* which the validation reports first).
C4_CappedDiscountRejected ==
  [][ /\ \A r \in Slots :
           ( /\ CheckoutAt(r, {"findDiscount"}) /\ Stepped(r)
             /\ DiscountOf(req[r].discountCode) # NoDoc
             /\ AtCap(discounts[DiscountOf(req[r].discountCode)]) )
           => DiscountNotApplied(r)
      /\ \A c \in ReqCodes \ {NoCode}, t \in ValidateTotals :
           ( /\ Validate(c, t)
             /\ DiscountOf(c) # NoDoc
             /\ AtCap(discounts[DiscountOf(c)]) )
           => /\ vresp'.status = 400
              /\ ~Expired(discounts[DiscountOf(c)])
                   => vresp'.error = "Discount code limit reached"
    ]_vars

\* C5 as stated: a discount whose expiresAt lies in the past is rejected by
\* the validation and by the checkout, which subtracts nothing and does not
\* count a use.
C5_ExpiredDiscountRejected ==
  [][ /\ \A r \in Slots :
           ( /\ CheckoutAt(r, {"findDiscount"}) /\ Stepped(r)
             /\ DiscountOf(req[r].discountCode) # NoDoc
             /\ Expired(discounts[DiscountOf(req[r].discountCode)]) )
           => DiscountNotApplied(r)
      /\ \A c \in ReqCodes \ {NoCode}, t \in ValidateTotals :
           ( /\ Validate(c, t)
             /\ DiscountOf(c) # NoDoc
             /\ Expired(discounts[DiscountOf(c)]) )
           => /\ vresp'.status = 400
              /\ vresp'.error = "Discount code expired"
    ]_vars

\* C6 as stated: the checkout applies a discount only when the running total
\* after credits is at least the discount's minPurchase, as the validation
\* rejects a total below minPurchase.
C6_MinPurchaseEnforced ==
  [][ /\ \A r \in Slots :
           ( /\ CheckoutAt(r, {"findDiscount"}) /\ Stepped(r)
             /\ DiscountOf(req[r].discountCode) # NoDoc
             /\ req[r].total < discounts[DiscountOf(req[r].discountCode)].minPurchase )
           => DiscountNotApplied(r)
      /\ \A c \in ReqCodes \ {NoCode}, t \in ValidateTotals :
           ( /\ Validate(c, t)
             /\ DiscountOf(c) # NoDoc
             /\ t < discounts[DiscountOf(c)].minPurchase )
           => vresp'.status = 400
    ]_vars

\* C10 as stated: the discountAmount persisted on an order is never more than
\* the running total that remained after credits.
C10_DiscountWithinRemainingTotal ==
  \A o \in Orders :
    o.discountAmount <= RawTotal(o.items) - OrderCreditsUsed(o)

RegisterAt(r, pcs) == req[r].kind = "register" /\ req[r].pc \in pcs

UniqueEmails ==
  \A i, j \in 1..Len(users) : i # j => users[i].email # users[j].email

\* C8: a registration whose email already belongs to a stored user is
\* rejected and stores no user, at the existence check or, when another
\* registration stored the email after that check, at the save; so no two
\* stored users ever share an email.
C8_EmailRegisteredOnce ==
  /\ []UniqueEmails
  /\ [][ \A r \in Slots :
           ( /\ RegisterAt(r, {"findEmail", "saveUser"}) /\ Stepped(r)
             /\ FindUserByEmail(req[r].email) # NoDoc )
           => /\ req'[r].pc = "done"
              /\ req'[r].status \in {400, 500}
              /\ users' = users
       ]_vars

\* a registration that passed the existence check, found the email stored by
\* an overlapping registration at its save and failed
C8_Witness ==
  \E r \in Slots :
    /\ RegisterAt(r, {"done"})
    /\ req[r].status = 500
    /\ FindUserByEmail(req[r].email) # NoDoc
    /\ UniqueEmails

\* the referral code of the registration in slot r is held by a stored user
RefersToUser(r) ==
  /\ req[r].referralCode # NoCode
  /\ FindUserByReferralCode(req[r].referralCode) # NoDoc

CreditsOfOthers(us, n) == [ i \in 1..n |-> us[i].credits ]

\* what the steps of the registration in slot r do to credits and referrals
RegistrationRewards(r) ==
  /\ ( RegisterAt(r, {"saveUser"}) /\ RefersToUser(r)
       /\ Len(users') = Len(users) + 1 )
     => users'[Len(users')].credits = NEW_USER_BONUS
  /\ ( RegisterAt(r, {"findReferrer"}) /\ RefersToUser(r) )
     => req'[r].pc = "saveReferrer"
  /\ ( RegisterAt(r, {"saveReferrer"}) /\ req[r].referrer # req[r].user )
     => /\ users'[req[r].referrer].credits =
             users[req[r].referrer].credits + REFERRER_BONUS
        /\ \A i \in 1..Len(users) :
             i # req[r].referrer => users'[i] = users[i]
        /\ req'[r].pc = "saveReferral"
  /\ RegisterAt(r, {"saveReferral"})
     => /\ referrals' = Append(referrals,
               [ referrerCode |-> req[r].referralCode,
                 referredEmail |-> req[r].email,
                 reward |-> REFERRAL_REWARD ])
        /\ req'[r].pc = "mail"
  /\ ~RegisterAt(r, {"saveReferral"}) => referrals' = referrals
  /\ req[r].referralCode = NoCode
     => /\ referrals' = referrals
        /\ CreditsOfOthers(users', Len(users)) =
             CreditsOfOthers(users, Len(users))

\* C9 as stated: a successful registration carrying the referral code of an
\* existing user, overlapping no other registration, stores the new user with
\* 1 credit, raises the referrer's stored credits by exactly 2 and appends
\* exactly one Referral (referrer code, new email, reward 2); a registration
\* without a referral code changes no other user's credits and appends no
\* Referral.
C9_ReferralRewards ==
  [][ \A r \in Slots :
        (req[r].kind = "register" /\ Stepped(r) /\ ~req[r].regOverlap)
          => RegistrationRewards(r) ]_vars

\* the same of a registration that overlaps no request at all
RegistrationRewardsAlone ==
  [][ \A r \in Slots :
        (req[r].kind = "register" /\ Stepped(r) /\ req[r].alone)
          => RegistrationRewards(r) ]_vars

\* C11: every stored user's credit balance is >= 0 in every reachable state,
\* whatever the interleaving of registrations and checkouts (the carts have
\* non-negative prices and quantities).
C11_CreditsNonNegative ==
  \A i \in 1..Len(users) : users[i].credits >= 0

\* two checkouts of the same user in flight, both having consumed credits, and
\* the user's balance at 0
C11_Witness ==
  \E r, q \in Slots :
    /\ r # q
    /\ CheckoutAt(r, PastCredits) /\ CheckoutAt(q, PastCredits)
    /\ req[r].user # NoDoc /\ req[r].user = req[q].user
    /\ req[r].creditsUsed > 0 /\ req[q].creditsUsed > 0
    /\ users[req[r].user].credits = 0

\* the balance the checkout in slot r read at User.findById
CreditsRead(r) == req[r].userCredits + req[r].creditsUsed

\* C12: a checkout's user.save() stores the balance it read minus its
\* creditsUsed, whatever another checkout stored since that read; two
\* checkouts that interleave between read and save so both consume the same
\* stored credits (C12_Witness: together more than the balance held before).
C12_SaveOverwritesBalance ==
  [][ \A r \in Slots :
        (CheckoutAt(r, {"saveUser"}) /\ Stepped(r)) =>
          /\ users'[req[r].user].credits = CreditsRead(r) - req[r].creditsUsed
          /\ users[req[r].user].credits < CreditsRead(r)
             => users[req[r].user].credits - users'[req[r].user].credits
                  < req[r].creditsUsed
    ]_vars

\* two checkouts of one user, started on the same stored balance, whose
\* creditsUsed together exceed that balance
C12_Witness ==
  \E r, q \in Slots :
    /\ r # q
    /\ CheckoutAt(r, PastCredits) /\ CheckoutAt(q, PastCredits)
    /\ req[r].user # NoDoc /\ req[r].user = req[q].user
    /\ req[r].credits0 > 0 /\ req[r].credits0 = req[q].credits0
    /\ req[r].creditsUsed + req[q].creditsUsed > req[r].credits0

\* C13: when stripe.checkout.sessions.create throws, the request ends with
\* status 500, no Order is added, and the stores keep what the credit and
\* discount steps wrote: for a checkout that ran alone, the balance stays
\* lowered by creditsUsed and usedCount stays incremented.
C13_SessionFailureKeepsWrites ==
  [][ \A r \in Slots :
        (CheckoutAt(r, {"createSession"}) /\ req'[r].pc = "done") =>
          /\ req'[r].status = 500
          /\ orders' = orders
          /\ users' = users /\ discounts' = discounts
          /\ (req[r].alone /\ req[r].user # NoDoc) =>
               users'[req[r].user].credits
                 = req[r].credits0 - req[r].creditsUsed
          /\ (req[r].alone /\ req[r].discount # NoDoc) =>
               discounts'[req[r].discount].usedCount = req[r].usedCount
    ]_vars

\* a checkout that consumed credits and a discount has failed with 500:
\* no order, the balance is below what was granted, the discount counts a use
C13_Witness ==
  \E r \in Slots :
    /\ req[r].kind = "checkout" /\ req[r].pc = "done" /\ req[r].status = 500
    /\ orders = << >>
    /\ Len(users) = 1 /\ users[1].credits < NEW_USER_BONUS
    /\ Len(discounts) = 1 /\ discounts[1].usedCount = 1

\* C14: the outcome of a request does not depend on whether its mail was
\* sent.  A checkout that reached its mail steps answers 200 with the session
\* id after exactly two send attempts and its Order is stored, however many
\* of them failed; /submit-login-details answers 200 success after exactly
\* one attempt; a mail step never touches the stores.
C14_EmailFailureKeepsOutcome ==
  /\ [](\A r \in Slots :
          /\ CheckoutAt(r, {"mailCustomer", "mailAdmin", "done"})
             /\ req[r].sessionId # NoDoc
             => \E i \in 1..Len(orders) :
                  orders[i].stripeSessionId = req[r].sessionId
          /\ CheckoutAt(r, {"done"}) /\ req[r].sessionId # NoDoc
             => /\ req[r].status = 200 /\ req[r].body = "session.id"
                /\ req[r].mailsTried = 2
          /\ CheckoutAt(r, {"mailAdmin"}) => req[r].mailsTried = 1)
  /\ [](lresp # NoLoginResponse
          => /\ lresp.status = 200 /\ lresp.body = "success"
             /\ lresp.mailsTried = 1)
  /\ [][ \A r \in Slots :
           (CheckoutAt(r, {"mailCustomer", "mailAdmin"}) /\ Stepped(r)) =>
             /\ req'[r].pc = IF req[r].pc = "mailCustomer"
                             THEN "mailAdmin" ELSE "done"
             /\ orders' = orders /\ users' = users /\ discounts' = discounts
     ]_vars

\* both mails of a finished checkout failed, and so did the notification of
\* an answered /submit-login-details
C14_Witness ==
  /\ \E r \in Slots :
       /\ CheckoutAt(r, {"done"}) /\ req[r].status = 200
       /\ req[r].mailsFailed = 2
  /\ lresp.status = 200 /\ lresp.mailsFailed = 1

\* the checkouts whose discount.save() of discount i this step performs
AppliesDiscount(i) ==
  { r \in Slots : /\ CheckoutAt(r, {"saveDiscount"}) /\ Stepped(r)
                  /\ req[r].discount = i }

\* C15 as stated: a discount's usedCount never decreases and in any
\* interleaving counts the checkouts that applied it: every step raises it by
\* one for the checkout whose discount.save() it performs, and every other
\* step (validation, registration, admin requests, the rest of a checkout)
\* leaves it unchanged.
C15_UsedCountCountsCheckouts ==
  [][ \A i \in 1..Len(discounts) :
        discounts'[i].usedCount
          = discounts[i].usedCount + Cardinality(AppliesDiscount(i))
    ]_vars

====
